---- MODULE Spec2Model ----
(***************************************************************************)
(* A model of main.py: the load_data cleaning pipeline, create_plot,       *)
(* add_zoom_controls, save_plot and the try/except of main.                *)
(*                                                                         *)
(* A DataFrame is a record [tag, cols, rows]: cols is the set of column    *)
(* names and rows the sequence of rows in positional order, each row       *)
(* carrying its index label idx and one cell per column.  A cell is        *)
(* [k, v]: a float ("num"), numeric text ("str", the text of numeral v),   *)
(* text that is no number ("bad") or a missing value ("nan").  The input    *)
(* tables give every column other than Time the same cell within a row.    *)
(***************************************************************************)
EXTENDS Integers, Sequences, FiniteSets, TLC

VARIABLES
    input,       \* the table pd.read_csv parses from args.data
    step,        \* args.step
    ecg_units,   \* args.ecg_units
    channels,    \* args.channels ({} for None or an empty list)
    show,        \* args.show
    read_fault,  \* what pd.read_csv does on args.data
    pc,          \* the statement of main that runs next
    pre,         \* load_data's local df before the step > 1 test (line 31)
    df,          \* main's df: the table load_data returned
    fig,         \* main's fig
    files,       \* the files of the output directory this run has written
    hint,        \* save_plot printed the kaleido note (line 278)
    static_err,  \* the image write that raised inside save_plot's try
    exc,         \* the exception raised into main's try block
    failedAt,    \* the step of main that raised it
    diag,        \* the diagnostic main's except clauses printed
    ran          \* the steps of main called so far, in call order

vars == <<input, step, ecg_units, channels, show, read_fault, pc, pre, df, fig,
          files, hint, static_err, exc, failedAt, diag, ran>>

args == <<input, step, ecg_units, channels, show, read_fault>>

\* ---------------------------------------------------------------- bounds

MaxRows == 3
MaxStep == 3
MaxMainRows == 2

\* ----------------------------------------------------------------- cells

Num(n) == [k |-> "num", v |-> n]
Str(n) == [k |-> "str", v |-> n]
Bad == [k |-> "bad", v |-> 0]
NaN == [k |-> "nan", v |-> 0]

None == [tag |-> "None"]

DataFrame(cols, rows) == [tag |-> "df", cols |-> cols, rows |-> rows]

\* pd.to_numeric(..., errors='coerce') on one cell
ToNumeric(c) ==
    CASE c.k = "num" -> c
      [] c.k = "str" -> Num(c.v)
      [] OTHER -> NaN

isna(c) == c.k = "nan"

\* df[col] = pd.to_numeric(df[col], errors='coerce')
ConvertColumn(rows, col) ==
    [i \in 1..Len(rows) |->
        [rows[i] EXCEPT !.cell = [@ EXCEPT ![col] = ToNumeric(@)]]]

RECURSIVE ConvertColumns(_, _)
ConvertColumns(rows, cols) ==
    IF cols = {} THEN rows
    ELSE LET c == CHOOSE x \in cols : TRUE
         IN  ConvertColumns(ConvertColumn(rows, c), cols \ {c})

\* ------------------------------------------------------------- load_data

HasTimeAnyCase(t) == "Time" \in t.cols \/ "time" \in t.cols

\* 'Time' in df.columns
HasTime(t) == "Time" \in t.cols

DropNaNone(rows) == rows

DropNaAll(rows) ==
    SelectSeq(rows, LAMBDA r :
        \A c \in DOMAIN r.cell : ToNumeric(r.cell[c]).k = "num")

\* df.dropna(subset=['Time'])
DropNaTime(rows) == SelectSeq(rows, LAMBDA r : ~isna(r.cell["Time"]))

IsSortedByTime(rows) ==
    \A i \in 1..Len(rows) - 1 : rows[i].cell["Time"].v <= rows[i + 1].cell["Time"].v

SortValuesNone(rows) == {rows}

\* df.sort_values('Time'): kind defaults to 'quicksort', which is not stable,
\* so every ascending arrangement of the rows is a possible outcome.
SortValues(rows) ==
    LET n == Len(rows)
        arranged == {[i \in 1..n |-> rows[p[i]]] : p \in Permutations(1..n)}
    IN  {s \in arranged : IsSortedByTime(s)}

ignore_cols_short == {"X3:", "Trigger", "Time_Offset", "ADC_Status", "ADC_Sequence", "Event"}

ignore_cols == {"X3:", "Trigger", "Time_Offset", "ADC_Status", "ADC_Sequence", "Event", "Comments"}

\* df[[c for c in df.columns if c not in ignore_cols]]
SelectColumns(cols, rows) ==
    LET keep == {c \in cols : c \notin ignore_cols}
    IN  [cols |-> keep,
         rows |-> [i \in 1..Len(rows) |->
                     [rows[i] EXCEPT !.cell = [c \in keep |-> @[c]]]]]

IlocFromOne(rows, k) ==
    LET n == Len(rows) IN [i \in 1..(n \div k) |-> rows[(i - 1) * k + 2]]

\* df.iloc[::k]
Iloc(rows, k) ==
    LET n == Len(rows)
    IN  [i \in 1..((n + k - 1) \div k) |-> rows[(i - 1) * k + 1]]

\* df.reset_index(drop=True)
reset_index(rows) == [i \in 1..Len(rows) |-> [rows[i] EXCEPT !.idx = i - 1]]

Raised(e) == [exc |-> e, pre |-> None, df |-> None]

\* The outcomes of load_data(filepath, step) once read_csv has parsed table t.
load_data(t, k) ==
    IF ~HasTime(t) THEN {Raised("ValueError")}
    ELSE IF "Time" \notin t.cols THEN {Raised("KeyError")}  \* df['Time'], line 21
    ELSE
      LET timed   == ConvertColumn(t.rows, "Time")
          cleaned == DropNaTime(timed)
      IN  { LET kept   == SelectColumns(t.cols, sorted)
                floats == ConvertColumns(kept.rows, kept.cols \ {"Time"})
                out    == IF k > 1 THEN Iloc(floats, k) ELSE floats
            IN  [exc |-> "none",
                 pre |-> DataFrame(kept.cols, floats),
                 df  |-> DataFrame(kept.cols, reset_index(out))]
            : sorted \in SortValues(cleaned) }

\* ----------------------------------------------------------- create_plot

eeg_channels ==
    {"P3", "C3", "F3", "Fz", "F4", "C4", "P4", "Cz", "A1", "Fp1", "Fp2",
     "T3", "T5", "O1", "O2", "F7", "F8", "A2", "T6", "T4", "Pz"}

ecg_channels == {"X1:LEOG", "X2:REOG"}

cm_channels == {"CM"}

\* [ch for ch in known if ch in df.columns], then the `if channels:` filter
Available(known, t, chans) ==
    {ch \in known : ch \in t.cols /\ (chans = {} \/ ch \in chans)}

MvNameInPlace(ch) == ch

\* f'{ch}_mV'
MvName(ch) == ch \o "_mV"

\* df[ch] / 1000.0 on one cell (the sample values are multiples of 1000)
DivThousand(c) == IF c.k = "num" THEN Num(c.v \div 1000) ELSE c

\* df[new] = df[src] / 1000.0
AssignMv(t, new, src) ==
    DataFrame(t.cols \cup {new},
              [i \in 1..Len(t.rows) |->
                  [t.rows[i] EXCEPT !.cell =
                      [c \in t.cols \cup {new} |->
                          IF c = new THEN DivThousand(t.rows[i].cell[src])
                          ELSE t.rows[i].cell[c]]]])

\* for ch in available_ecg: df[f'{ch}_mV'] = df[ch] / 1000.0
RECURSIVE ConvertToMv(_, _)
ConvertToMv(t, chs) ==
    IF chs = {} THEN t
    ELSE LET ch == CHOOSE x \in chs : TRUE
         IN  ConvertToMv(AssignMv(t, MvName(ch), ch), chs \ {ch})

\* The outcome of create_plot(df, ...): df is changed in place before the
\* figure is built, so a failure leaves the new columns behind.  fault is a
\* failure inside the plotting library.
create_plot(t, units, chans, fault) ==
    LET available_eeg == Available(eeg_channels, t, chans)
        available_ecg == Available(ecg_channels, t, chans)
        available_cm  == Available(cm_channels, t, chans)
        t1 == IF units = "mv" THEN ConvertToMv(t, available_ecg) ELSE t
        ecg_data_cols == IF units = "mv"
                         THEN {MvName(ch) : ch \in available_ecg}
                         ELSE available_ecg
        cm_mv == units = "mv" /\ available_cm # {}
        t2 == IF cm_mv THEN AssignMv(t1, "CM_mV", "CM") ELSE t1
        cm_data_cols == IF cm_mv THEN {"CM_mV"} ELSE available_cm
        figure == [tag |-> "fig",
                   eeg |-> available_eeg,
                   ecg |-> ecg_data_cols,
                   cm |-> cm_data_cols,
                   ecg_unit_label |-> IF units = "mv" THEN "mV" ELSE "uV",
                   cm_unit_label |-> IF cm_mv THEN "mV" ELSE "uV",
                   modebar |-> FALSE]
    IN  IF fault THEN [df |-> t2, fig |-> None, exc |-> "Exception"]
        ELSE IF available_ecg # {} /\ Len(t2.rows) = 0
             THEN [df |-> t2, fig |-> None, exc |-> "ValueError"]
             ELSE [df |-> t2, fig |-> figure, exc |-> "none"]

\* ------------------------------------------------------------- save_plot

\* How one write to the output directory ends.
WriteOutcomes == {"ok", "error_before_write", "error_mid_write"}

\* The file a write leaves behind.
Written(name, outcome) == IF outcome = "error_before_write" THEN {} ELSE {name}

StaticExportPdfOutsideTry(fs, png, pdf) ==
    IF png # "ok"
    THEN [files |-> fs \cup Written("png", png), hint |-> TRUE,
          static_err |-> "png", exc |-> "none"]
    ELSE IF pdf # "ok"
    THEN [files |-> fs \cup {"png"} \cup Written("pdf", pdf), hint |-> FALSE,
          static_err |-> "pdf", exc |-> "Exception"]
    ELSE [files |-> fs \cup {"png", "pdf"}, hint |-> FALSE,
          static_err |-> "none", exc |-> "none"]

\* The try/except of save_plot around the two fig.write_image calls.
StaticExport(fs, png, pdf) ==
    IF png # "ok"
    THEN [files |-> fs \cup Written("png", png), hint |-> TRUE,
          static_err |-> "png", exc |-> "none"]
    ELSE IF pdf # "ok"
    THEN [files |-> fs \cup {"png"} \cup Written("pdf", pdf), hint |-> TRUE,
          static_err |-> "pdf", exc |-> "none"]
    ELSE [files |-> fs \cup {"png", "pdf"}, hint |-> FALSE,
          static_err |-> "none", exc |-> "none"]

\* The outcome of save_plot(fig, output_dir): mk is how os.makedirs ends, and
\* html, png, pdf how the three writes end.
save_plot(fs, mk, html, png, pdf) ==
    IF mk # "ok"
    THEN [files |-> fs, hint |-> FALSE, static_err |-> "none", exc |-> "OSError"]
    ELSE IF html # "ok"
    THEN [files |-> fs \cup Written("html", html), hint |-> FALSE,
          static_err |-> "none", exc |-> "OSError"]
    ELSE StaticExport(fs \cup {"html"}, png, pdf)

\* ------------------------------------------------------------------ main

afterSaveBeforeZoom(s) ==
    CASE s = "load" -> "plot"
      [] s = "plot" -> "save"
      [] s = "save" -> "zoom"
      [] s = "zoom" -> "show"
      [] s = "show" -> "returned"

\* The statement of main's try block that follows statement s.
after(s) ==
    CASE s = "load" -> "plot"
      [] s = "plot" -> "zoom"
      [] s = "zoom" -> "save"
      [] s = "save" -> "show"
      [] s = "show" -> "returned"

\* The classes the model raises; all derive from Exception.
ExceptionClasses ==
    {"FileNotFoundError", "ParserError", "ValueError", "KeyError", "OSError", "Exception"}

main_except_ValueErrorOnly(e) ==
    IF e = "FileNotFoundError" THEN "not_found"
    ELSE IF e \in {"ValueError", "ParserError"} THEN "error"
    ELSE "uncaught"

\* main's except clauses: what is printed for exception e.
main_except(e) ==
    IF e = "FileNotFoundError" THEN "not_found"
    ELSE IF e \in ExceptionClasses THEN "error"
    ELSE "uncaught"

\* ---------------------------------------------------------------- inputs

TimeCells == {Num(0), Str(1), Bad, NaN}
PayloadCells == {Str(3000), Bad}

ColumnSets ==
    { {"Time", "Fp1", "Trigger"},
      {"Time", "X1:LEOG", "CM", "Comments", "Event"},
      {"Time", "Extra", "trigger", "X3:", "Time_Offset", "ADC_Status", "ADC_Sequence"},
      {"Time", "CM", "CM_mV"},
      {"Fp1", "CM", "Trigger"},
      {"time", "Fp1"} }

MkRow(cols, i, t, p) ==
    [idx |-> i, cell |-> [c \in cols |-> IF c = "Time" THEN t ELSE p]]

Tables(maxRows, tcells, pcells) ==
    UNION { { DataFrame(cols, [i \in 1..n |-> MkRow(cols, i - 1, ts[i], ps[i])])
              : ts \in [1..n -> tcells], ps \in [1..n -> pcells], cols \in ColumnSets }
            : n \in 0..maxRows }

StartOfMain ==
    /\ pc = "load"
    /\ pre = None
    /\ df = None
    /\ fig = None
    /\ files = {}
    /\ hint = FALSE
    /\ static_err = "none"
    /\ exc = "none"
    /\ failedAt = "none"
    /\ diag = "none"
    /\ ran = <<>>

InitLoad ==
    /\ input \in Tables(MaxRows, TimeCells, PayloadCells)
    /\ step \in 1..MaxStep
    /\ ecg_units = "mv"
    /\ channels = {}
    /\ show = FALSE
    /\ read_fault \in {"ok", "FileNotFoundError"}
    /\ StartOfMain

\* main, line 310: df = load_data(args.data, step=args.step)
Load ==
    /\ pc = "load"
    /\ ran' = Append(ran, "load")
    /\ \/ /\ read_fault # "ok"
          /\ exc' = read_fault
          /\ failedAt' = "load"
          /\ pc' = "except"
          /\ UNCHANGED <<pre, df>>
       \/ /\ read_fault = "ok"
          /\ \E o \in load_data(input, step) :
                /\ pre' = o.pre
                /\ df' = o.df
                /\ exc' = o.exc
                /\ failedAt' = IF o.exc = "none" THEN "none" ELSE "load"
                /\ pc' = IF o.exc = "none" THEN after("load") ELSE "except"
    /\ UNCHANGED <<args, fig, files, hint, static_err, diag>>

\* main, line 314: fig = create_plot(df, ...)
CreatePlot ==
    /\ pc = "plot"
    /\ ran' = Append(ran, "plot")
    /\ \E fault \in BOOLEAN :
          LET o == create_plot(df, ecg_units, channels, fault)
          IN  /\ df' = o.df
              /\ fig' = o.fig
              /\ exc' = o.exc
              /\ failedAt' = IF o.exc = "none" THEN "none" ELSE "plot"
              /\ pc' = IF o.exc = "none" THEN after("plot") ELSE "except"
    /\ UNCHANGED <<args, pre, files, hint, static_err, diag>>

\* main, line 317: add_zoom_controls(fig)
AddZoomControls ==
    /\ pc = "zoom"
    /\ ran' = Append(ran, "zoom")
    /\ \/ /\ fig' = [fig EXCEPT !.modebar = TRUE]
          /\ pc' = after("zoom")
          /\ UNCHANGED <<exc, failedAt>>
       \/ /\ exc' = "Exception"
          /\ failedAt' = "zoom"
          /\ pc' = "except"
          /\ UNCHANGED fig
    /\ UNCHANGED <<args, pre, df, files, hint, static_err, diag>>

\* main, line 320: save_plot(fig, args.output)
SavePlot ==
    /\ pc = "save"
    /\ ran' = Append(ran, "save")
    /\ \E mk \in {"ok", "error"}, html \in WriteOutcomes,
          png \in WriteOutcomes, pdf \in WriteOutcomes :
          LET o == save_plot(files, mk, html, png, pdf)
          IN  /\ files' = o.files
              /\ hint' = o.hint
              /\ static_err' = o.static_err
              /\ exc' = o.exc
              /\ failedAt' = IF o.exc = "none" THEN "none" ELSE "save"
              /\ pc' = IF o.exc = "none" THEN after("save") ELSE "except"
    /\ UNCHANGED <<args, pre, df, fig, diag>>

\* main, lines 323-327: fig.show() when --show is given
Show ==
    /\ pc = "show"
    /\ \/ /\ ~show
          /\ pc' = after("show")
          /\ UNCHANGED <<ran, exc, failedAt>>
       \/ /\ show
          /\ ran' = Append(ran, "show")
          /\ \/ /\ pc' = after("show")
                /\ UNCHANGED <<exc, failedAt>>
             \/ /\ exc' = "Exception"
                /\ failedAt' = "show"
                /\ pc' = "except"
    /\ UNCHANGED <<args, pre, df, fig, files, hint, static_err, diag>>

\* main, lines 329-334: the except clauses
Except ==
    /\ pc = "except"
    /\ LET printed == main_except(exc)
       IN  IF printed = "uncaught"
           THEN pc' = "raised" /\ UNCHANGED diag
           ELSE pc' = "returned" /\ diag' = printed
    /\ UNCHANGED <<args, pre, df, fig, files, hint, static_err, exc, failedAt, ran>>

MainTimeCells == {Num(0), Bad}
MainPayloadCells == {Num(3000)}

Init ==
    /\ input \in Tables(MaxMainRows, MainTimeCells, MainPayloadCells)
    /\ step \in 1..2
    /\ ecg_units \in {"uv", "mv"}
    /\ channels \in {{}, {"Fp1"}, {"X1:LEOG", "CM"}}
    /\ show \in BOOLEAN
    /\ read_fault \in {"ok", "FileNotFoundError", "ParserError"}
    /\ StartOfMain

Next ==
    \/ Load
    \/ CreatePlot
    \/ AddZoomControls
    \/ SavePlot
    \/ Show
    \/ Except

Spec == Init /\ [][Next]_vars

SpecLoad == InitLoad /\ [][Load]_vars

\* ------------------------------------------------- claims about load_data

Loaded == pc = "plot"

Converts(c) == c.k \in {"num", "str"}

TimeOf(r) == r.cell["Time"]

\* C1: a table with no column named exactly Time makes load_data raise the
\* schema error (ValueError) for every step: nothing is cleaned, sorted,
\* filtered or decimated, and no table is returned.
C1_SchemaError ==
    (pc # "load" /\ read_fault = "ok" /\ "Time" \notin input.cols)
        => /\ pc = "except"
           /\ exc = "ValueError"
           /\ failedAt = "load"
           /\ pre = None
           /\ df = None

C1_Witness ==
    /\ pc = "except"
    /\ exc = "ValueError"
    /\ "time" \in input.cols
    /\ Len(input.rows) > 1
    /\ step > 1

\* C2: the returned table's Time column is sorted ascending and holds no
\* missing value, and every column has one cell in every row.
C2_TimeSortedNoMissing ==
    Loaded =>
        /\ \A i \in 1..Len(df.rows) : TimeOf(df.rows[i]).k = "num"
        /\ \A i \in 1..Len(df.rows) - 1 :
              TimeOf(df.rows[i]).v <= TimeOf(df.rows[i + 1]).v
        /\ \A i \in 1..Len(df.rows) : DOMAIN df.rows[i].cell = df.cols

C2_Witness ==
    /\ Loaded
    /\ Len(df.rows) >= 2
    /\ TimeOf(df.rows[1]).v < TimeOf(df.rows[2]).v
    /\ \E i \in 1..Len(input.rows) : ~Converts(TimeOf(input.rows[i]))
    /\ \E i \in 2..Len(input.rows) :
          /\ TimeOf(input.rows[i]) = Num(0)
          /\ TimeOf(input.rows[i - 1]) = Str(1)

\* C3: the returned table's columns are the input columns minus the seven
\* ignored names, matched exactly.
C3_ColumnSet ==
    Loaded =>
        df.cols = input.cols \ {"X3:", "Trigger", "Time_Offset", "ADC_Status",
                                "ADC_Sequence", "Event", "Comments"}

C3_Witness ==
    /\ Loaded
    /\ {"Comments", "Event"} \subseteq input.cols
    /\ df.cols = {"Time", "X1:LEOG", "CM"}

\* C4: row i of the returned table is row i*step of the table before
\* decimation, there are ceil(preLength / step) rows, and they are labelled
\* 0, 1, 2, ...; with step = 1 nothing is left out.
C4_Decimation ==
    Loaded =>
        LET n == Len(pre.rows)
            m == Len(df.rows)
        IN  /\ df.cols = pre.cols
            /\ (m - 1) * step < n
            /\ n <= m * step
            /\ \A i \in 0..m - 1 :
                  /\ df.rows[i + 1].cell = pre.rows[i * step + 1].cell
                  /\ df.rows[i + 1].idx = i

C4_Witness ==
    /\ Loaded
    /\ step = 2
    /\ Len(pre.rows) = 3
    /\ Len(df.rows) = 2
    /\ pre.rows[3].idx = 0

\* C5: with step = 1 a row is dropped exactly when its Time cell is missing
\* or is no number; a cell of another column that is no number becomes
\* missing and its row stays.
C5_OnlyTimeDropsRows ==
    (Loaded /\ step = 1) =>
        LET kept == {i \in 1..Len(input.rows) : Converts(TimeOf(input.rows[i]))}
        IN  /\ Len(df.rows) = Cardinality(kept)
            /\ {pre.rows[j].idx : j \in 1..Len(pre.rows)} = {i - 1 : i \in kept}
            /\ \A j \in 1..Len(pre.rows) : \A c \in df.cols \ {"Time"} :
                  LET raw == input.rows[pre.rows[j].idx + 1].cell[c]
                  IN  /\ df.rows[j].cell[c] = pre.rows[j].cell[c]
                      /\ Converts(raw) => pre.rows[j].cell[c] = Num(raw.v)
                      /\ ~Converts(raw) => pre.rows[j].cell[c] = NaN

C5_Witness ==
    /\ Loaded
    /\ step = 1
    /\ Len(input.rows) = 3
    /\ Len(df.rows) = 2
    /\ TimeOf(input.rows[2]) = Bad
    /\ df.rows[1].cell["Fp1"] = NaN
    /\ df.rows[2].cell["Fp1"] = Num(3000)

\* C6, as claimed: rows with equal Time keep their input order.
C6_StableSort ==
    Loaded =>
        \A i, j \in 1..Len(pre.rows) :
            (i < j /\ TimeOf(pre.rows[i]) = TimeOf(pre.rows[j]))
                => pre.rows[i].idx < pre.rows[j].idx

\* C6, amended: the sort arranges the rows that survive cleaning in ascending
\* Time order, each exactly once with its Time converted; rows with equal
\* Time may come out in either order.
C6_SortedArrangement ==
    Loaded =>
        LET kept == {i \in 1..Len(input.rows) : Converts(TimeOf(input.rows[i]))}
        IN  /\ Len(pre.rows) = Cardinality(kept)
            /\ {pre.rows[j].idx : j \in 1..Len(pre.rows)} = {i - 1 : i \in kept}
            /\ \A j \in 1..Len(pre.rows) :
                  TimeOf(pre.rows[j]) = Num(TimeOf(input.rows[pre.rows[j].idx + 1]).v)
            /\ \A j \in 1..Len(pre.rows) - 1 :
                  TimeOf(pre.rows[j]).v <= TimeOf(pre.rows[j + 1]).v

C6_Witness ==
    /\ Loaded
    /\ \E i, j \in 1..Len(pre.rows) :
          /\ i < j
          /\ TimeOf(pre.rows[i]) = TimeOf(pre.rows[j])
          /\ pre.rows[i].idx > pre.rows[j].idx
    /\ \E i \in 1..Len(pre.rows) - 1 :
          /\ TimeOf(pre.rows[i]).v < TimeOf(pre.rows[i + 1]).v
          /\ pre.rows[i].idx > pre.rows[i + 1].idx

\* ------------------------------------------------ claims about main's run

Order == <<"load", "plot", "zoom", "save", "show">>

Position(s) == CHOOSE i \in 1..Len(Order) : Order[i] = s

\* The derived columns create_plot adds to table t.
MvColumns(t) ==
    IF ecg_units # "mv" THEN {}
    ELSE {c \in {"X1:LEOG_mV", "X2:REOG_mV", "CM_mV"} :
            \E ch \in {"X1:LEOG", "X2:REOG", "CM"} :
                /\ c = ch \o "_mV"
                /\ ch \in t.cols
                /\ (channels = {} \/ ch \in channels)}

\* C7, as claimed: once load_data has returned, no step changes the table.
C7_Immutable == [][pc # "load" => df' = df]_vars

\* C7, amended: add_zoom_controls, save_plot and the show step never change
\* the table, and the only change create_plot makes to it is, in unit mode
\* mv, to add (or overwrite, when the table already has a column of that
\* name) the column <ch>_mV for each ECG channel it plots and CM_mV when it
\* plots CM; every other column, every row and every index label stay, and
\* in unit mode uv the table is left as it is.
C7_OnlyAddsMvColumns ==
    [][ (pc # "load" /\ df # None) =>
          /\ pc # "plot" => df' = df
          /\ pc = "plot" =>
                /\ df.cols \subseteq df'.cols
                /\ df'.cols \subseteq df.cols \cup MvColumns(df)
                /\ fig' # None => df'.cols = df.cols \cup MvColumns(df)
                /\ Len(df'.rows) = Len(df.rows)
                /\ \A i \in 1..Len(df.rows) :
                      /\ df'.rows[i].idx = df.rows[i].idx
                      /\ \A c \in df.cols \ MvColumns(df) :
                            df'.rows[i].cell[c] = df.rows[i].cell[c]
                /\ ecg_units = "uv" => df' = df ]_vars

C7_Witness ==
    /\ pc = "zoom"
    /\ ecg_units = "mv"
    /\ df.cols = {"Time", "X1:LEOG", "CM", "X1:LEOG_mV", "CM_mV"}
    /\ Len(df.rows) = 2
    /\ df.rows[1].cell["X1:LEOG"] = Num(3000)
    /\ df.rows[1].cell["X1:LEOG_mV"] = Num(3)

\* C8: whenever a write of the raster or the vector image fails, save_plot
\* has printed its note, has returned without raising, and the interactive
\* document it wrote before is in the output directory.
C8_StaticExportBestEffort ==
    /\ static_err # "none" =>
          /\ hint
          /\ "html" \in files
          /\ failedAt # "save"
          /\ pc \in {"show", "except", "returned"}
          /\ pc = "except" => failedAt = "show"
    /\ (pc \in {"show", "returned"} /\ failedAt = "none") => "html" \in files

C8_Witness ==
    /\ pc = "show"
    /\ static_err = "pdf"
    /\ hint
    /\ files = {"html", "png"}

\* C9, as claimed: a run that ends with a diagnostic has written no file.
C9_NoOutputOnFailure == (pc = "returned" /\ diag # "none") => files = {}

\* C9, amended: a run that ends with a diagnostic because load_data,
\* create_plot or add_zoom_controls failed has written no file; a failure of
\* save_plot or of the show step can leave files of the run behind.
C9_NoOutputBeforeSave ==
    (failedAt \in {"load", "plot", "zoom"}) => files = {}

C9_Witness ==
    /\ pc = "returned"
    /\ diag = "error"
    /\ failedAt = "zoom"
    /\ files = {}

\* C10: whatever step raises, main prints a diagnostic and returns without
\* raising, and no step after the failed one has been called.
C10_NonCrashing ==
    /\ pc # "raised"
    /\ failedAt # "none" =>
          /\ pc \in {"except", "returned"}
          /\ ran = SubSeq(Order, 1, Position(failedAt))
    /\ pc = "except" => (failedAt # "none" /\ exc # "none" /\ ENABLED Except)
    /\ (pc = "returned" /\ failedAt # "none") => diag \in {"not_found", "error"}
    /\ (pc = "returned" /\ failedAt = "none") => diag = "none"

C10_Witness ==
    /\ pc = "returned"
    /\ failedAt = "save"
    /\ exc = "OSError"
    /\ diag = "error"
    /\ ran = <<"load", "plot", "zoom", "save">>

====
